---------------------------- MODULE Spec2Model ----------------------------
(***************************************************************************)
(* A model of the generate-validate-repair loop of app.py: the sanitizer   *)
(* clean_generated_code, the retry loop of auto_backtest with its          *)
(* validation, shape repair, error classification and fallback strategy.   *)
(*                                                                         *)
(* Text is modelled as a sequence of one-character strings, so that        *)
(* startswith, endswith, split, join, strip, lower and the substring test  *)
(* `in` are computed character by character as Python computes them.       *)
(***************************************************************************)
EXTENDS Integers, Sequences, FiniteSets, TLC

(***************************************************************************)
(* Python str operations used by app.py                                    *)
(***************************************************************************)
NL == "\n"

\* the character U+0060 (a grave accent cannot be written in a TLA+ string)
Backtick == "GRAVE"

\* str.strip() with no argument removes these ASCII whitespace characters
Whitespace == {" ", "\t", "\n", "\r", "\f"}

UpperChars == <<"A","B","C","D","E","F","G","H","I","J","K","L","M",
                "N","O","P","Q","R","S","T","U","V","W","X","Y","Z">>

LowerChars == <<"a","b","c","d","e","f","g","h","i","j","k","l","m",
                "n","o","p","q","r","s","t","u","v","w","x","y","z">>

\* s[n:]
Drop(s, n) == SubSeq(s, n + 1, Len(s))

\* s[:n]
Take(s, n) == SubSeq(s, 1, n)

\* s.startswith(p)
StartsWith(s, p) == Len(p) <= Len(s) /\ Take(s, Len(p)) = p

\* s.endswith(p)
EndsWith(s, p) == Len(p) <= Len(s) /\ Drop(s, Len(s) - Len(p)) = p

\* sub in s
Contains(s, sub) ==
    \E i \in 0..(Len(s) - Len(sub)) : SubSeq(s, i + 1, i + Len(sub)) = sub

LowerChar(c) ==
    IF \E i \in DOMAIN UpperChars : UpperChars[i] = c
    THEN LowerChars[CHOOSE i \in DOMAIN UpperChars : UpperChars[i] = c]
    ELSE c

\* s.lower()
Lower(s) == [i \in 1..Len(s) |-> LowerChar(s[i])]

\* s.split('\n'): the pieces between the newlines, always at least one piece
RECURSIVE SplitFrom(_, _, _)
SplitFrom(s, i, cur) ==
    IF i > Len(s) THEN <<cur>>
    ELSE IF s[i] = NL THEN <<cur>> \o SplitFrom(s, i + 1, <<>>)
    ELSE SplitFrom(s, i + 1, Append(cur, s[i]))

Split(s) == SplitFrom(s, 1, <<>>)

\* '\n'.join(lines)
RECURSIVE Join(_)
Join(lines) ==
    IF Len(lines) = 0 THEN <<>>
    ELSE IF Len(lines) = 1 THEN lines[1]
    ELSE lines[1] \o <<NL>> \o Join(Tail(lines))

RECURSIVE LStrip(_)
LStrip(s) ==
    IF Len(s) > 0 /\ s[1] \in Whitespace THEN LStrip(Tail(s)) ELSE s

RECURSIVE RStrip(_)
RStrip(s) ==
    IF Len(s) > 0 /\ s[Len(s)] \in Whitespace
    THEN RStrip(Take(s, Len(s) - 1)) ELSE s

\* s.strip()
Strip(s) == LStrip(RStrip(s))

\* the concatenation of a sequence of texts
RECURSIVE Concat(_)
Concat(parts) ==
    IF Len(parts) = 0 THEN <<>> ELSE parts[1] \o Concat(Tail(parts))

(***************************************************************************)
(* clean_generated_code (app.py lines 29-48)                               *)
(***************************************************************************)
FencePython == <<Backtick,Backtick,Backtick,"p","y","t","h","o","n">>

Fence == <<Backtick,Backtick,Backtick>>

\* the phrases of line 44, compared with the lower-cased line
ExplanationMarkers ==
    { <<"t","h","i","s"," ","c","o","d","e">>,
      <<"t","h","e"," ","a","b","o","v","e">>,
      <<"e","x","p","l","a","n","a","t","i","o","n",":">>,
      <<"n","o","t","e",":">> }

\* line 44: any(phrase in line.lower() for phrase in [...])
HasMarker(line) == \E phrase \in ExplanationMarkers : Contains(Lower(line), phrase)

\* a plausible slip: continue in place of the break of line 45
RECURSIVE CleanedLines_SkipMarker(_)
CleanedLines_SkipMarker(lines) ==
    IF Len(lines) = 0 THEN <<>>
    ELSE IF HasMarker(lines[1]) THEN CleanedLines_SkipMarker(Tail(lines))
    ELSE <<lines[1]>> \o CleanedLines_SkipMarker(Tail(lines))

\* lines 41-46: the lines before the first one that holds a marker
RECURSIVE CleanedLines(_)
CleanedLines(lines) ==
    IF Len(lines) = 0 THEN <<>>
    ELSE IF HasMarker(lines[1]) THEN <<>>
    ELSE <<lines[1]>> \o CleanedLines(Tail(lines))

\* lines 32-37: the three fence removals, in the order of the code
StripFences(code_str) ==
    LET s1 == IF StartsWith(code_str, FencePython) THEN Drop(code_str, 9) ELSE code_str
        s2 == IF StartsWith(s1, Fence) THEN Drop(s1, 3) ELSE s1
        s3 == IF EndsWith(s2, Fence) THEN Take(s2, Len(s2) - 3) ELSE s2
    IN  s3

\* a plausible slip: the final .strip() left out
clean_generated_code_NoStrip(code_str) ==
    Join(CleanedLines(Split(StripFences(code_str))))

clean_generated_code(code_str) ==
    Strip(Join(CleanedLines(Split(StripFences(code_str)))))

(***************************************************************************)
(* The error classifier (app.py lines 277-287): str(e) is matched against  *)
(* fixed substrings, the first matching rule decides, and last_error is    *)
(* the rule's prefix, the message and the rule's hint in one text.         *)
(***************************************************************************)
ShapeWord == <<"s","h","a","p","e">>

DoesntMatchWord == <<"d","o","e","s","n","'","t"," ","m","a","t","c","h">>

KeyErrorWord == <<"K","e","y","E","r","r","o","r">>

NoneOfWord == <<"N","o","n","e"," ","o","f">>

PricesMissingWord == <<"Y","F","P","r","i","c","e","s","M","i","s","s","i","n","g","E","r","r","o","r">>

NoDataWord == <<"N","o"," ","d","a","t","a"," ","f","o","u","n","d">>

SyntaxErrorWord == <<"S","y","n","t","a","x","E","r","r","o","r">>

ShapePrefix == <<"S","h","a","p","e"," ","m","i","s","m","a","t","c","h"," ","e","r","r","o","r",":"," ">>

ShapeHint == <<"\n","E","n","s","u","r","e"," ","e","n","t","r","i","e","s"," ","a","n","d"," ","e","x","i","t","s"," ","h","a","v","e"," ","s","a","m","e"," ","s","h","a","p","e"," ","a","s"," ","c","l","o","s","e"," ","b","y"," ","a","d","d","i","n","g",":","\n","e","n","t","r","i","e","s"," ","="," ","e","n","t","r","i","e","s",".","r","e","i","n","d","e","x","(","i","n","d","e","x","=","c","l","o","s","e",".","i","n","d","e","x",","," ","c","o","l","u","m","n","s","=","c","l","o","s","e",".","c","o","l","u","m","n","s",","," ","f","i","l","l","_","v","a","l","u","e","=","F","a","l","s","e",")","\n","e","x","i","t","s"," ","="," ","e","x","i","t","s",".","r","e","i","n","d","e","x","(","i","n","d","e","x","=","c","l","o","s","e",".","i","n","d","e","x",","," ","c","o","l","u","m","n","s","=","c","l","o","s","e",".","c","o","l","u","m","n","s",","," ","f","i","l","l","_","v","a","l","u","e","=","F","a","l","s","e",")">>

IndexingPrefix == <<"I","n","d","e","x","i","n","g"," ","e","r","r","o","r",":"," ">>

IndexingHint == <<"\n","A","v","o","i","d"," ","u","s","i","n","g"," ",".","l","o","c","[","]"," ","w","i","t","h"," ","b","o","o","l","e","a","n"," ","s","e","r","i","e","s"," ","d","i","r","e","c","t","l","y","."," ","U","s","e"," ",".","m","u","l","t","i","p","l","y","(",")"," ","m","e","t","h","o","d"," ","i","n","s","t","e","a","d"," ","f","o","r"," ","a","p","p","l","y","i","n","g"," ","c","o","n","d","i","t","i","o","n","s"," ","a","c","r","o","s","s"," ","D","a","t","a","F","r","a","m","e",".">>

TickerPrefix == <<"I","n","v","a","l","i","d"," ","t","i","c","k","e","r"," ","s","y","m","b","o","l",":"," ">>

TickerHint == <<"\n","U","s","e"," ","'","^","C","R","S","L","D","X","'"," ","f","o","r"," ","N","i","f","t","y"," ","5","0","0"," ","i","n","d","e","x"," ","d","a","t","a",","," ","n","o","t"," ","o","t","h","e","r"," ","s","y","m","b","o","l","s",".">>

SyntaxPrefix == <<"P","y","t","h","o","n"," ","s","y","n","t","a","x"," ","e","r","r","o","r",":"," ">>

SyntaxHint == <<"\n","C","h","e","c","k"," ","f","o","r"," ","i","n","v","a","l","i","d"," ","m","e","t","h","o","d"," ","c","a","l","l","s"," ","o","n"," ","l","i","t","e","r","a","l","s"," ","(","e",".","g",".",","," ","u","s","e"," ","(","1","0","0",")",".","d","i","v","(",")"," ","n","o","t"," ","1","0","0",".","d","i","v","(",")",")"," ","o","r"," ","u","s","e"," ","s","t","a","n","d","a","r","d"," ","o","p","e","r","a","t","o","r","s"," ","l","i","k","e"," ","/"," ","i","n","s","t","e","a","d"," ","o","f"," ",".","d","i","v","(",")">>

OtherPrefix == <<"E","r","r","o","r",":"," ">>

\* a plausible slip: the SyntaxError rule tried before the others
Classify_SyntaxFirst(error_str) ==
    IF Contains(error_str, SyntaxErrorWord)
    THEN SyntaxPrefix \o error_str \o SyntaxHint
    ELSE IF Contains(error_str, ShapeWord) /\ Contains(error_str, DoesntMatchWord)
    THEN ShapePrefix \o error_str \o ShapeHint
    ELSE IF Contains(error_str, KeyErrorWord) /\ Contains(error_str, NoneOfWord)
    THEN IndexingPrefix \o error_str \o IndexingHint
    ELSE IF Contains(error_str, PricesMissingWord) \/ Contains(error_str, NoDataWord)
    THEN TickerPrefix \o error_str \o TickerHint
    ELSE OtherPrefix \o error_str

\* lines 278-287: the value given to last_error for the message error_str
Classify(error_str) ==
    IF Contains(error_str, ShapeWord) /\ Contains(error_str, DoesntMatchWord)
    THEN ShapePrefix \o error_str \o ShapeHint
    ELSE IF Contains(error_str, KeyErrorWord) /\ Contains(error_str, NoneOfWord)
    THEN IndexingPrefix \o error_str \o IndexingHint
    ELSE IF Contains(error_str, PricesMissingWord) \/ Contains(error_str, NoDataWord)
    THEN TickerPrefix \o error_str \o TickerHint
    ELSE IF Contains(error_str, SyntaxErrorWord)
    THEN SyntaxPrefix \o error_str \o SyntaxHint
    ELSE OtherPrefix \o error_str

(***************************************************************************)
(* Values bound in the execution environment.  A pandas DataFrame is its   *)
(* row index and its column labels (sequences without repeated labels) and *)
(* the cell value at every (row label, column label) pair.                 *)
(***************************************************************************)
Range(s) == {s[i] : i \in DOMAIN s}

\* the name is not bound
Absent == [kind |-> "absent"]

\* an object that is not a DataFrame (a Series, a number, ...)
NotFrame == [kind |-> "object"]

Frame(index, columns, val) ==
    [kind |-> "frame", index |-> index, columns |-> columns, val |-> val]

\* isinstance(v, pd.DataFrame)
IsFrame(v) == v.kind = "frame"

\* df.shape
Shape(df) == <<Len(df.index), Len(df.columns)>>

Cells(index, columns) == Range(index) \X Range(columns)

\* pd.DataFrame(value, index=index, columns=columns)
ConstFrame(value, index, columns) ==
    Frame(index, columns, [p \in Cells(index, columns) |-> value])

\* the cells of a boolean frame that hold True
TrueCells(df) == {p \in DOMAIN df.val : df.val[p] = TRUE}

\* df.reindex(index=index, columns=columns, fill_value=False): the cells of
\* df whose labels are kept keep their value, the new cells hold fill_value
Reindex(df, index, columns) ==
    Frame(index, columns,
          [p \in Cells(index, columns) |->
              IF p \in DOMAIN df.val THEN df.val[p] ELSE FALSE])

\* the multi-level table yf.download(..., group_by="ticker") returns: one
\* sub-table per ticker, each with the price fields as its columns
MultiFrame(index, tickers, fields) ==
    [kind |-> "multiframe", index |-> index, tickers |-> tickers, fields |-> fields]

PriceFields == {"Open", "High", "Low", "Close", "Volume"}

\* raw.xs('Close', axis=1, level=1) on a table that has the field: the
\* Close column of every ticker (the prices themselves are not modelled)
CloseOf(raw) ==
    Frame(raw.index, raw.tickers,
          [p \in Cells(raw.index, raw.tickers) |-> "price"])

(***************************************************************************)
(* Validation and shape repair of one attempt (app.py lines 230-254)       *)
(***************************************************************************)
MissingMsg == <<"G","e","n","e","r","a","t","e","d"," ","c","o","d","e"," ","m","u","s","t"," ","d","e","f","i","n","e"," ","'","c","l","o","s","e","'",","," ","'","e","n","t","r","i","e","s","'",","," ","a","n","d"," ","'","e","x","i","t","s","'"," ","v","a","r","i","a","b","l","e","s">>

CloseTypeMsg == <<"'","c","l","o","s","e","'"," ","m","u","s","t"," ","b","e"," ","a"," ","p","a","n","d","a","s"," ","D","a","t","a","F","r","a","m","e">>

EntriesTypeMsg == <<"'","e","n","t","r","i","e","s","'"," ","m","u","s","t"," ","b","e"," ","a"," ","p","a","n","d","a","s"," ","D","a","t","a","F","r","a","m","e">>

ExitsTypeMsg == <<"'","e","x","i","t","s","'"," ","m","u","s","t"," ","b","e"," ","a"," ","p","a","n","d","a","s"," ","D","a","t","a","F","r","a","m","e">>

Fault(msg) == [ok |-> FALSE, error |-> msg]

Triple(close, entries, exits) ==
    [ok |-> TRUE, close |-> close, entries |-> entries, exits |-> exits]

\* a plausible slip: only the rows are reindexed, the columns are kept
RepairShape_IndexOnly(sig, close) ==
    IF Shape(sig) # Shape(close)
    THEN Reindex(sig, close.index, sig.columns)
    ELSE sig

\* lines 248-250 and 252-254: a signal table whose shape differs from
\* close's is reindexed onto close; one of the same shape is left as it is
RepairShape(sig, close) ==
    IF Shape(sig) # Shape(close)
    THEN Reindex(sig, close.index, close.columns)
    ELSE sig

\* a plausible slip: the types are tested from exits back to close
Validate_ExitsFirst(env) ==
    IF env["close"] = Absent \/ env["entries"] = Absent \/ env["exits"] = Absent
    THEN Fault(MissingMsg)
    ELSE IF ~IsFrame(env["exits"]) THEN Fault(ExitsTypeMsg)
    ELSE IF ~IsFrame(env["entries"]) THEN Fault(EntriesTypeMsg)
    ELSE IF ~IsFrame(env["close"]) THEN Fault(CloseTypeMsg)
    ELSE Triple(env["close"],
                RepairShape(env["entries"], env["close"]),
                RepairShape(env["exits"], env["close"]))

\* lines 231-254 on the environment env left by exec
Validate(env) ==
    IF env["close"] = Absent \/ env["entries"] = Absent \/ env["exits"] = Absent
    THEN Fault(MissingMsg)
    ELSE IF ~IsFrame(env["close"]) THEN Fault(CloseTypeMsg)
    ELSE IF ~IsFrame(env["entries"]) THEN Fault(EntriesTypeMsg)
    ELSE IF ~IsFrame(env["exits"]) THEN Fault(ExitsTypeMsg)
    ELSE Triple(env["close"],
                RepairShape(env["entries"], env["close"]),
                RepairShape(env["exits"], env["close"]))

(***************************************************************************)
(* The fallback strategy (app.py lines 296-310)                            *)
(***************************************************************************)
\* line 302: entries.iloc[10] = True
FallbackOffset == 10

XsMsg == <<"'","S","e","r","i","e","s","'"," ","o","b","j","e","c","t"," ","h","a","s"," ","n","o"," ","a","t","t","r","i","b","u","t","e"," ","'","x","s","'">>

NoRawMsg == <<"n","a","m","e"," ","'","r","a","w","'"," ","i","s"," ","n","o","t"," ","d","e","f","i","n","e","d">>

NoCloseMsg == <<"'","C","l","o","s","e","'">>

IlocMsg == <<"i","l","o","c"," ","c","a","n","n","o","t"," ","e","n","l","a","r","g","e"," ","i","t","s"," ","t","a","r","g","e","t"," ","o","b","j","e","c","t">>

\* df.iloc[pos] = True: every cell of the row at position pos (from 0)
SetRow(df, pos) ==
    [df EXCEPT !.val = [p \in DOMAIN df.val |->
                           IF p[1] = df.index[pos + 1] THEN TRUE ELSE df.val[p]]]

\* a plausible slip: the signal is set in the first column only
FallbackEntries_FirstColumn(close) ==
    LET blank == ConstFrame(FALSE, close.index, close.columns)
    IN  [blank EXCEPT !.val = [p \in DOMAIN blank.val |->
            p = <<close.index[FallbackOffset + 1], close.columns[1]>>]]

\* lines 299 and 302
FallbackEntries(close) ==
    SetRow(ConstFrame(FALSE, close.index, close.columns), FallbackOffset)

\* exec(fallback_code, preloaded_globals, env): the environment it leaves,
\* or the fault it raises
FallbackCode(env) ==
    LET raw == env["raw"] IN
    IF raw = Absent THEN Fault(NoRawMsg)
    ELSE IF raw.kind # "multiframe" THEN Fault(XsMsg)
    ELSE IF "Close" \notin raw.fields THEN Fault(NoCloseMsg)
    ELSE IF Len(raw.index) <= FallbackOffset THEN Fault(IlocMsg)
    ELSE [ok |-> TRUE,
          env |-> [env EXCEPT !["close"] = CloseOf(raw),
                              !["entries"] = FallbackEntries(CloseOf(raw)),
                              !["exits"] = ConstFrame(FALSE, raw.index, raw.tickers)]]

(***************************************************************************)
(* auto_backtest (app.py lines 50-340) as a state machine                  *)
(***************************************************************************)
VARIABLES
    pc,           \* the statement auto_backtest is at
    api_key,      \* whether OPENAI_API_KEY is set (line 60)
    max_retries,  \* the argument max_retries
    raw,          \* the table yf.download returned (line 174)
    env,          \* the dict env of line 184: exec's local bindings
    attempt,      \* the loop variable of line 194
    code_str,     \* line 182, 216, 219
    last_error,   \* line 183, 279-287
    error_str,    \* str(e) of the fault being handled (line 277)
    fallback_error, \* str(fallback_error) of line 329
    sim,          \* the arguments of the last Portfolio.from_signals call
    result,       \* how auto_backtest ended: a return value or a raised fault
    genCalls,     \* history: the remote generation calls made so far
    faults,       \* history: the attempts that ended in a fault so far
    fault_at,     \* history: the attempt whose fault error_str holds
    code_at,      \* history: the attempt whose completion code_str holds
    fb,           \* history: how far the fallback strategy got
    probe,        \* the input and output of a function checked on its own
    response,     \* what the /backtest route answered (lines 355-550)
    process,      \* what every request thread reaches: openai.api_key, the heap
    calls         \* the locals of the calls of auto_backtest in progress, per thread

vars == <<pc, api_key, max_retries, raw, env, attempt, code_str,
          last_error, error_str, fallback_error, sim, result, genCalls,
          faults, fault_at, code_at, fb, probe, response, process, calls>>

\* the largest max_retries a caller passes
MaxRetries == 3

\* Python's None, which no text equals
None == <<"None">>

EnvNames == {"raw", "close", "entries", "exits"}

Digits == <<"0","1","2","3","4","5","6","7","8","9">>

\* str(n) for n >= 0
RECURSIVE Str(_)
Str(n) == IF n < 10 THEN <<Digits[n + 1]>> ELSE Str(n \div 10) \o <<Digits[(n % 10) + 1]>>

(***************************************************************************)
(* The inputs the environment supplies: the fetched price table, the       *)
(* model's completions, what a generated program binds and how it ends,    *)
(* and the faults of the simulation library.                               *)
(***************************************************************************)
DatesTo(n) == [i \in 1..n |-> i]

\* price tables around the row the fallback writes to
RawTables ==
    {MultiFrame(DatesTo(n), <<"A", "B">>, PriceFields) :
        n \in {FallbackOffset, FallbackOffset + 1}}

user_prompt == <<"b","u","y"," ","l","o","w">>

\* line 65-167: the fixed rules and examples of lines 65-164 are left out
base_prompt ==
    <<"U","S","E","R"," ","S","T","R","A","T","E","G","Y",":"," ","\"">> \o user_prompt
        \o <<"\"","\n","\n","G","e","n","e","r","a","t","e"," ","O","N","L","Y"," ","t","h","e"," ","c","o","d","e"," ","(","n","o"," ","e","x","p","l","a","n","a","t","i","o","n","s",","," ","n","o"," ","m","a","r","k","d","o","w","n",")",":">>

GenTexts ==
    { <<Backtick,Backtick,Backtick,"p","y","t","h","o","n","\n","e","n","t","r","i","e","s"," ","="," ","x","\n",Backtick,Backtick,Backtick>>,
      <<"c","l","o","s","e"," ","="," ","r","a","w">> }

\* a name the generated program leaves as it is
Keep == [kind |-> "keep"]

GenColumns == {<<"A", "B">>, <<"B", "A">>, <<"A">>}

GenClose == {ConstFrame("price", <<1>>, <<"A", "B">>)}

GenEntries == {ConstFrame(TRUE, <<1>>, c) : c \in GenColumns}

GenExits == {ConstFrame(TRUE, <<1>>, c) : c \in {<<"A", "B">>, <<"A">>}}

\* what a generated program does to each name of env
Programs ==
    [raw : {Keep, NotFrame},
     close : {Keep, NotFrame} \cup GenClose,
     entries : {Keep, NotFrame} \cup GenEntries,
     exits : {Keep, NotFrame} \cup GenExits]

\* exec(code_str, preloaded_globals, env) binds in env what the code assigns
Apply(prog, e) == [n \in EnvNames |-> IF prog[n] = Keep THEN e[n] ELSE prog[n]]

ExecMsgs == { <<"s","h","a","p","e"," ","(","1",","," ","1",")"," ","d","o","e","s","n","'","t"," ","m","a","t","c","h"," ","t","h","e"," ","b","r","o","a","d","c","a","s","t"," ","s","h","a","p","e"," ","(","1",","," ","2",")">> }

SimMsgs == { <<"K","e","y","E","r","r","o","r",":"," ","N","o","n","e"," ","o","f"," ","[","I","n","d","e","x","]"," ","a","r","e"," ","i","n"," ","t","h","e"," ","c","o","l","u","m","n","s">> }

\* line 184
FreshEnv(r) == [n \in EnvNames |-> IF n = "raw" THEN r ELSE Absent]

NoEnv == [n \in EnvNames |-> Absent]

\* line 62
KeyMsg == <<"Y","o","u"," ","m","u","s","t"," ","p","r","o","v","i","d","e"," ","a","n"," ","O","p","e","n","A","I"," ","A","P","I"," ","k","e","y"," ","v","i","a"," ","O","P","E","N","A","I","_","A","P","I","_","K","E","Y"," ","e","n","v"," ","v","a","r",".">>

Raise(type, msg) == [kind |-> "raise", type |-> type, msg |-> msg]

Portfolio(by, args) == [kind |-> "portfolio", by |-> by, args |-> args]

Running == [kind |-> "running"]

\* line 340
ReturnNone == [kind |-> "None"]

NoProbe == [kind |-> "none"]

NoResponse == [status |-> "none"]

\* no request thread is running
NoProcess == [kind |-> "none"]

NoCalls == <<>>

Init ==
    /\ pc = "configure"
    /\ api_key \in BOOLEAN
    /\ max_retries \in 0..MaxRetries
    /\ raw = Absent
    /\ env = NoEnv
    /\ attempt = 0
    /\ code_str = None
    /\ last_error = <<>>
    /\ error_str = None
    /\ fallback_error = None
    /\ sim = None
    /\ result = Running
    /\ genCalls = 0
    /\ faults = 0
    /\ fault_at = 0
    /\ code_at = 0
    /\ fb = "no"
    /\ probe = NoProbe
    /\ response = NoResponse
    /\ process = NoProcess
    /\ calls = NoCalls

\* lines 60-62
Configure ==
    /\ pc = "configure"
    /\ IF api_key
       THEN pc' = "load" /\ result' = result
       ELSE pc' = "done" /\ result' = Raise("ValueError", KeyMsg)
    /\ UNCHANGED <<api_key, max_retries, raw, env, attempt, code_str,
                   last_error, error_str, fallback_error, sim, genCalls,
                   faults, fault_at, code_at, fb, probe, response,
                   process, calls>>

\* a plausible slip: the fetch inside the try of line 227
AfterFetchFault_Handled == "except"

\* lines 170-180 stand outside every try: a fault there leaves auto_backtest
AfterFetchFault == "done"

\* lines 170-192: a fault of read_csv or yf.download leaves auto_backtest
LoadData ==
    /\ pc = "load"
    /\ \/ /\ pc' = AfterFetchFault
          /\ result' = Raise("fetch", None)
          /\ UNCHANGED <<raw, env>>
       \/ \E r \in RawTables :
             /\ raw' = r
             /\ env' = FreshEnv(r)
             /\ pc' = "loop"
             /\ result' = result
    /\ UNCHANGED <<api_key, max_retries, attempt, code_str,
                   last_error, error_str, fallback_error, sim, genCalls,
                   faults, fault_at, code_at, fb, probe, response,
                   process, calls>>

\* a plausible slip: range(1, max_retries + 2)
HasNext_OffByOne == attempt <= max_retries

\* line 194: the next value of range(1, max_retries + 1)
HasNext == attempt < max_retries

\* line 194 and, when the range is used up, line 340
NextAttempt ==
    /\ pc = "loop"
    /\ IF HasNext
       THEN attempt' = attempt + 1 /\ pc' = "generate" /\ result' = result
       ELSE attempt' = attempt /\ pc' = "done" /\ result' = ReturnNone
    /\ UNCHANGED <<api_key, max_retries, raw, env, code_str,
                   last_error, error_str, fallback_error, sim, genCalls,
                   faults, fault_at, code_at, fb, probe, response,
                   process, calls>>

\* a plausible slip: the number of the attempt being made, not of the failed one
BuildPrompt_ThisAttempt ==
    IF code_str = None THEN base_prompt
    ELSE base_prompt
         \o <<"\n","#"," ","P","r","e","v","i","o","u","s"," ","c","o","d","e",":","\n">> \o code_str
         \o <<"\n","#"," ","E","r","r","o","r"," ","o","n"," ","a","t","t","e","m","p","t"," ">> \o Str(attempt)
         \o <<":","\n">> \o last_error
         \o <<"\n","#"," ","P","l","e","a","s","e"," ","c","o","r","r","e","c","t"," ","a","n","d"," ","o","u","t","p","u","t"," ","o","n","l","y"," ","c","o","r","r","e","c","t","e","d"," ","c","o","d","e",".">>

\* lines 196-209
BuildPrompt ==
    IF code_str = None THEN base_prompt
    ELSE base_prompt
         \o <<"\n","#"," ","P","r","e","v","i","o","u","s"," ","c","o","d","e",":","\n">> \o code_str
         \o <<"\n","#"," ","E","r","r","o","r"," ","o","n"," ","a","t","t","e","m","p","t"," ">> \o Str(attempt - 1)
         \o <<":","\n">> \o last_error
         \o <<"\n","#"," ","P","l","e","a","s","e"," ","c","o","r","r","e","c","t"," ","a","n","d"," ","o","u","t","p","u","t"," ","o","n","l","y"," ","c","o","r","r","e","c","t","e","d"," ","c","o","d","e",".">>

\* a plausible slip: the remote call inside the try of line 227
AfterGenerationFault_Handled == "except"

\* lines 212-216 stand before the try of line 227: a fault of the remote
\* call leaves auto_backtest
AfterGenerationFault == "done"

\* lines 196-219: the prompt, the remote call, the sanitizer
GenerateCode ==
    /\ pc = "generate"
    /\ genCalls' = genCalls + 1
    /\ \/ /\ pc' = AfterGenerationFault
          /\ result' = Raise("generation", None)
          /\ code_str' = code_str
          /\ code_at' = code_at
       \/ \E text \in GenTexts :
             /\ code_str' = clean_generated_code(text)
             /\ code_at' = attempt
             /\ pc' = "exec"
             /\ result' = result
    /\ UNCHANGED <<api_key, max_retries, raw, env, attempt, last_error,
                   error_str, fallback_error, sim, faults, fault_at, fb, probe,
                   response,
                   process, calls>>

\* line 228: the program binds names in env and ends normally or in a fault
ExecCode ==
    /\ pc = "exec"
    /\ \E prog \in Programs :
          /\ env' = Apply(prog, env)
          /\ \/ pc' = "validate" /\ error_str' = error_str /\ fault_at' = fault_at
             \/ \E msg \in ExecMsgs :
                   pc' = "except" /\ error_str' = msg /\ fault_at' = attempt
    /\ UNCHANGED <<api_key, max_retries, raw, attempt, code_str,
                   last_error, fallback_error, sim, result, genCalls,
                   faults, code_at, fb, probe, response,
                   process, calls>>

\* lines 230-254
ValidateStep ==
    /\ pc = "validate"
    /\ LET v == Validate(env) IN
       IF v.ok
       THEN /\ pc' = "simulate" /\ sim' = v
            /\ error_str' = error_str /\ fault_at' = fault_at
       ELSE /\ pc' = "except" /\ sim' = sim
            /\ error_str' = v.error /\ fault_at' = attempt
    /\ UNCHANGED <<api_key, max_retries, raw, env, attempt, code_str,
                   last_error, fallback_error, result, genCalls, faults,
                   code_at, fb, probe, response,
                   process, calls>>

\* a plausible slip: the portfolio is kept and the loop goes on
AfterSuccess_Continue == "loop"

\* line 273: return pf leaves the loop and the function
AfterSuccess == "done"

\* lines 257-273: Portfolio.from_signals returns a portfolio or raises
Simulate ==
    /\ pc = "simulate"
    /\ \/ /\ pc' = AfterSuccess
          /\ result' = Portfolio("generated", sim)
          /\ error_str' = error_str
          /\ fault_at' = fault_at
       \/ \E msg \in SimMsgs :
             /\ pc' = "except"
             /\ error_str' = msg
             /\ fault_at' = attempt
             /\ result' = result
    /\ UNCHANGED <<api_key, max_retries, raw, env, attempt, code_str,
                   last_error, fallback_error, sim, genCalls, faults,
                   code_at, fb, probe, response,
                   process, calls>>

\* a plausible slip: a comparison that no attempt of the loop satisfies
IsFinalAttempt_Past == attempt > max_retries

\* a plausible slip: the fallback taken at the first fault
IsFinalAttempt_Any == attempt >= 1

\* line 291
IsFinalAttempt == attempt = max_retries

\* lines 275-293: classify the fault, then retry or turn to the fallback
HandleError ==
    /\ pc = "except"
    /\ last_error' = Classify(error_str)
    /\ faults' = faults + 1
    /\ IF IsFinalAttempt
       THEN pc' = "fallback_exec" /\ fb' = "started"
       ELSE pc' = "loop" /\ fb' = fb
    /\ UNCHANGED <<api_key, max_retries, raw, env, attempt, code_str,
                   error_str, fallback_error, sim, result, genCalls, fault_at, code_at,
                   probe, response,
                   process, calls>>

\* lines 294-310: exec of fallback_code in the same env, and the name check
FallbackExec ==
    /\ pc = "fallback_exec"
    /\ LET f == FallbackCode(env) IN
       IF f.ok
       THEN /\ env' = f.env
            /\ fallback_error' = fallback_error
            /\ IF f.env["close"] # Absent /\ f.env["entries"] # Absent
                  /\ f.env["exits"] # Absent
               THEN /\ sim' = Triple(f.env["close"], f.env["entries"], f.env["exits"])
                    /\ pc' = "fallback_sim"
                    /\ fb' = fb
               ELSE sim' = sim /\ pc' = "give_up" /\ fb' = "skipped"
       ELSE /\ env' = env
            /\ fallback_error' = f.error
            /\ sim' = sim
            /\ pc' = "give_up"
            /\ fb' = "faulted"
    /\ UNCHANGED <<api_key, max_retries, raw, attempt, code_str,
                   last_error, error_str, result, genCalls, faults, fault_at, code_at, probe, response,
                   process, calls>>

\* lines 313-332
FallbackSimulate ==
    /\ pc = "fallback_sim"
    /\ \/ /\ pc' = "done"
          /\ result' = Portfolio("fallback", sim)
          /\ fb' = "returned"
          /\ fallback_error' = fallback_error
       \/ \E msg \in SimMsgs :
             /\ pc' = "give_up"
             /\ fallback_error' = msg
             /\ fb' = "faulted"
             /\ result' = result
    /\ UNCHANGED <<api_key, max_retries, raw, env, attempt, code_str,
                   last_error, error_str, sim, genCalls, faults, fault_at, code_at, probe, response,
                   process, calls>>

\* a plausible slip: the fallback's fault reported instead of last_error
GiveUpMsg_FallbackError ==
    <<"F","a","i","l","e","d"," ","t","o"," ","g","e","n","e","r","a","t","e"," ","v","a","l","i","d"," ","c","o","d","e"," ","a","f","t","e","r"," ">> \o Str(max_retries)
        \o <<" ","a","t","t","e","m","p","t","s",".","\n","L","a","s","t"," ","e","r","r","o","r",":","\n">> \o fallback_error

\* lines 335-338
GiveUpMsg ==
    <<"F","a","i","l","e","d"," ","t","o"," ","g","e","n","e","r","a","t","e"," ","v","a","l","i","d"," ","c","o","d","e"," ","a","f","t","e","r"," ">> \o Str(max_retries)
        \o <<" ","a","t","t","e","m","p","t","s",".","\n","L","a","s","t"," ","e","r","r","o","r",":","\n">> \o last_error

GiveUp ==
    /\ pc = "give_up"
    /\ pc' = "done"
    /\ result' = Raise("RuntimeError", GiveUpMsg)
    /\ UNCHANGED <<api_key, max_retries, raw, env, attempt, code_str,
                   last_error, error_str, fallback_error, sim, genCalls,
                   faults, fault_at, code_at, fb, probe, response,
                   process, calls>>

Next ==
    \/ Configure
    \/ LoadData
    \/ NextAttempt
    \/ GenerateCode
    \/ ExecCode
    \/ ValidateStep
    \/ Simulate
    \/ HandleError
    \/ FallbackExec
    \/ FallbackSimulate
    \/ GiveUp

Spec == Init /\ [][Next]_vars

(***************************************************************************)
(* The functions checked on their own: probe holds an input drawn from a   *)
(* bounded set and, once the function has been applied, its output.  The   *)
(* variables of auto_backtest stay as they are before a request.           *)
(***************************************************************************)
soloVars == <<pc, api_key, max_retries, raw, env, attempt, code_str,
              last_error, error_str, fallback_error, sim, result, genCalls,
              faults, fault_at, code_at, fb, response>>

mainVars == <<soloVars, process, calls>>

Idle ==
    /\ pc = "idle"
    /\ api_key = FALSE
    /\ max_retries = 0
    /\ raw = Absent
    /\ env = NoEnv
    /\ attempt = 0
    /\ code_str = None
    /\ last_error = <<>>
    /\ error_str = None
    /\ fallback_error = None
    /\ sim = None
    /\ result = Running
    /\ genCalls = 0
    /\ faults = 0
    /\ fault_at = 0
    /\ code_at = 0
    /\ fb = "no"
    /\ response = NoResponse

NoPair == process = NoProcess /\ calls = NoCalls

\* the sequences over S of length at most n
SeqsUpTo(S, n) == UNION {[1..k -> S] : k \in 0..n}

\* the sequences over S of length 1 to n
SeqsFrom1(S, n) == UNION {[1..k -> S] : k \in 1..n}

\* the sequences that hold each label of a subset of S once
AxesOver(S) ==
    UNION {{s \in [1..Cardinality(T) -> T] : Range(s) = T} : T \in SUBSET S}

(***************************************************************************)
(* clean_generated_code on model outputs                                   *)
(***************************************************************************)
\* the pieces a model output is put together from
MaxFrags == 4

\* the lines of a fenced output
MaxLines == 2

CleanFrags ==
    { FencePython, Fence, <<NL>>, <<" ">>,
      <<"a"," ","="," ","1">>,
      <<"a"," ","="," ","1","\n">>,
      <<"#"," ","N","O","T","E",":"," ","b">>,
      <<"\t","c">> }

FreeTexts == {Concat(fs) : fs \in SeqsUpTo(CleanFrags, MaxFrags)}

CodeLineSet == { <<"e","n","t","r","i","e","s"," ","="," ","x">>, <<"e","x","i","t","s"," ","="," ","~","x">> }

MarkerLineSet == { <<"T","h","i","s"," ","c","o","d","e"," ","b","u","y","s"," ","l","o","w",".">>, <<"E","x","p","l","a","n","a","t","i","o","n",":"," ","h","o","l","d">> }

ProseLineSet == MarkerLineSet \cup { <<"T","h","a","n","k","s",".">> }

\* an opening fence line, code lines, a closing fence line, prose lines
\* the first of which holds an explanation marker
FencedForms ==
    {<<open, code, <<first>> \o rest>> :
        open \in {Fence, FencePython},
        code \in SeqsFrom1(CodeLineSet, MaxLines),
        first \in MarkerLineSet,
        rest \in SeqsUpTo(ProseLineSet, MaxLines - 1)}

FencedText(form) == Join(<<form[1]>> \o form[2] \o <<Fence>> \o form[3])

CleanProbes ==
    {[kind |-> "clean", form |-> <<>>, input |-> t, once |-> None,
      twice |-> None, step |-> 0] : t \in FreeTexts}
    \cup
    {[kind |-> "clean", form |-> f, input |-> FencedText(f), once |-> None,
      twice |-> None, step |-> 0] : f \in FencedForms}

InitClean == Idle /\ NoPair /\ probe \in CleanProbes

\* code_str = clean_generated_code(code_str) (line 219)
CleanOnce ==
    /\ probe.kind = "clean" /\ probe.step = 0
    /\ probe' = [probe EXCEPT !.once = clean_generated_code(probe.input),
                              !.step = 1]
    /\ UNCHANGED mainVars

\* the sanitizer applied to its own output
CleanTwice ==
    /\ probe.kind = "clean" /\ probe.step = 1
    /\ probe' = [probe EXCEPT !.twice = clean_generated_code(probe.once),
                              !.step = 2]
    /\ UNCHANGED mainVars

NextClean == CleanOnce \/ CleanTwice

SpecClean == InitClean /\ [][NextClean]_vars

(***************************************************************************)
(* The classifier on fault messages                                        *)
(***************************************************************************)
\* the pieces a fault message is put together from
MaxErrFrags == 3

ErrFrags ==
    { ShapeWord, DoesntMatchWord, KeyErrorWord, NoneOfWord, NoDataWord,
      PricesMissingWord, SyntaxErrorWord,
      <<"K","e","y","E","r","r","o","r",":"," ","N","o","n","e"," ","o","f"," ","[","I","n","d","e","x","]"," ","a","r","e"," ","i","n"," ","t","h","e"," ","c","o","l","u","m","n","s">>,
      <<" ","S","h","a","p","e"," ">> }

ErrMessages == {Concat(fs) : fs \in SeqsUpTo(ErrFrags, MaxErrFrags)}

InitClassify ==
    /\ Idle
    /\ NoPair
    /\ probe \in {[kind |-> "classify", input |-> m, out |-> None, step |-> 0] :
                     m \in ErrMessages}

\* lines 277-287 on the message probe.input
ClassifyStep ==
    /\ probe.kind = "classify" /\ probe.step = 0
    /\ probe' = [probe EXCEPT !.out = Classify(probe.input), !.step = 1]
    /\ UNCHANGED mainVars

NextClassify == ClassifyStep

SpecClassify == InitClassify /\ [][NextClassify]_vars

(***************************************************************************)
(* Validation and shape repair on the tables a program may leave           *)
(***************************************************************************)
RepairDates == {1, 2}

RepairTickers == {"A", "B"}

\* axes of tables with at most one row or at most one column
RepairAxes ==
    {ax \in AxesOver(RepairDates) \X AxesOver(RepairTickers) :
        Len(ax[1]) <= 1 \/ Len(ax[2]) <= 1}

RepairCloses == {ConstFrame("price", ax[1], ax[2]) : ax \in RepairAxes}

RepairSignals ==
    UNION {{Frame(ax[1], ax[2], v) : v \in [Cells(ax[1], ax[2]) -> BOOLEAN]} :
              ax \in RepairAxes}

InitRepair ==
    /\ Idle
    /\ NoPair
    /\ probe \in {[kind |-> "repair",
                   env |-> [n \in EnvNames |->
                              CASE n = "close" -> c
                                [] n = "entries" -> en
                                [] n = "exits" -> ex
                                [] OTHER -> Absent],
                   out |-> None, step |-> 0] :
                     c \in RepairCloses, en \in RepairSignals, ex \in RepairSignals}

\* lines 231-254 on the environment probe.env
RepairStep ==
    /\ probe.kind = "repair" /\ probe.step = 0
    /\ probe' = [probe EXCEPT !.out = Validate(probe.env), !.step = 1]
    /\ UNCHANGED mainVars

NextRepair == RepairStep

SpecRepair == InitRepair /\ [][NextRepair]_vars

(***************************************************************************)
(* The fallback strategy on price tables                                   *)
(***************************************************************************)
\* the most rows of a price table
MaxRows == 12

FallbackRawTables ==
    {MultiFrame(DatesTo(n), t, f) :
        n \in 0..MaxRows,
        t \in AxesOver(RepairTickers),
        f \in {PriceFields, PriceFields \ {"Close"}}}

InitFallback ==
    /\ Idle
    /\ NoPair
    /\ probe \in {[kind |-> "fallback", env |-> FreshEnv(r), out |-> None,
                   step |-> 0] : r \in FallbackRawTables}

\* line 304 on the environment probe.env
FallbackStep ==
    /\ probe.kind = "fallback" /\ probe.step = 0
    /\ probe' = [probe EXCEPT !.out = FallbackCode(probe.env), !.step = 1]
    /\ UNCHANGED mainVars

NextFallback == FallbackStep

SpecFallback == InitFallback /\ [][NextFallback]_vars

(***************************************************************************)
(* The claims                                                              *)
(***************************************************************************)
FallbackReturned == result.kind = "portfolio" /\ result.by = "fallback"

ExhaustedRaised == result.kind = "raise" /\ result.type = "RuntimeError"

\* C1: a run with max_retries = N makes at most N remote generation calls;
\* the fallback strategy starts only after exactly N attempts have each ended
\* in a fault, and from its start to the end of the run the number of
\* generation calls stays N, so the fallback makes none.
C1_GenerationCallsBounded ==
    /\ genCalls <= max_retries
    /\ fb # "no" => faults = max_retries /\ genCalls = max_retries
    /\ FallbackReturned => faults = max_retries /\ genCalls = max_retries

\* C1 witness: max_retries = 3, three faulting attempts, three generation
\* calls, and the fallback portfolio returned
C1_Witness ==
    /\ max_retries = 3 /\ faults = 3 /\ genCalls = 3
    /\ FallbackReturned

\* C2: a fault at attempt k (raised by exec, by the name and type checks or
\* by the simulation) is caught and handled: with k < max_retries the next
\* step of the loop starts attempt k + 1, with k = max_retries the fallback
\* strategy starts; the fallback starts at no other point, and the
\* exhausted-attempts error is raised only after the fallback has been tried.
C2_FaultRetriesOrFallsBack ==
    [][ /\ pc \in {"exec", "validate", "simulate"} =>
              /\ result'.kind # "raise"
              /\ error_str' # error_str \/ fault_at' # fault_at => pc' = "except"
        /\ pc = "validate" /\ ~Validate(env).ok => pc' = "except"
        /\ pc = "except" /\ attempt < max_retries => pc' = "loop" /\ fb' = "no"
        /\ pc = "loop" /\ attempt >= 1 =>
              pc' = "generate" /\ attempt' = attempt + 1
        /\ pc = "except" /\ attempt = max_retries => pc' = "fallback_exec"
        /\ pc' = "fallback_exec" /\ pc # "fallback_exec" =>
              pc = "except" /\ attempt = max_retries
        /\ result'.kind = "raise" /\ result.kind # "raise"
           /\ pc \notin {"configure", "load", "generate"} =>
              fb \in {"faulted", "skipped"}
      ]_vars

\* C2 witness: the name check failed at the final attempt of a run with
\* retries, and the fallback strategy is about to run
C2_Witness ==
    /\ pc = "fallback_exec" /\ max_retries >= 2 /\ attempt = max_retries
    /\ error_str = MissingMsg /\ fault_at = max_retries

\* C3: the exhausted-attempts error is raised only when all max_retries
\* attempts faulted and the fallback faulted too; its message is the fixed
\* header followed by the classified message of the final attempt's fault;
\* a fallback that succeeds returns its portfolio and raises nothing.
C3_ExhaustedOnlyAfterFallbackFault ==
    /\ ExhaustedRaised =>
          /\ faults = max_retries
          /\ fb = "faulted"
          /\ fault_at = max_retries
          /\ result.msg = <<"F","a","i","l","e","d"," ","t","o"," ","g","e","n","e","r","a","t","e"," ","v","a","l","i","d"," ","c","o","d","e"," ","a","f","t","e","r"," ">>
                              \o Str(max_retries)
                              \o <<" ","a","t","t","e","m","p","t","s",".","\n","L","a","s","t"," ","e","r","r","o","r",":","\n">>
                              \o Classify(error_str)
    /\ fb = "returned" => FallbackReturned /\ result.args = sim
    /\ FallbackReturned => fb = "returned"

\* C3 witness: a price table of fewer than 11 rows makes the fallback fault
\* after the simulation of the final attempt faulted
C3_Witness ==
    /\ ExhaustedRaised
    /\ max_retries >= 2
    /\ Len(raw.index) < 11
    /\ env["raw"] = raw
    /\ fallback_error = IlocMsg
    /\ error_str \in SimMsgs

SameLabels(sig, close) ==
    /\ Shape(sig) = Shape(close)
    /\ sig.index = close.index
    /\ sig.columns = close.columns

\* C4: whenever the simulation is invoked for a generated attempt, entries
\* and exits have the shape, the row index and the column labels of close.
C4_SimulatedSignalsMatchClose ==
    pc = "simulate" => SameLabels(sim.entries, sim.close) /\ SameLabels(sim.exits, sim.close)

\* C5: when the shape of entries (of exits) differs from close's, validation
\* does not fail: the table passed on has close's row index and column
\* labels, every cell whose label pair the original had keeps its value and
\* every other cell is false; close is passed on unchanged.
C5_ShapeMismatchIsReindexed ==
    probe.kind = "repair" /\ probe.step = 1 =>
        LET close == probe.env["close"]
            out == probe.out
            Repaired(orig, sig) ==
                Shape(orig) # Shape(close) =>
                    /\ IsFrame(sig)
                    /\ sig.index = close.index
                    /\ sig.columns = close.columns
                    /\ DOMAIN sig.val = Cells(close.index, close.columns)
                    /\ \A p \in DOMAIN sig.val :
                          sig.val[p] = IF p \in DOMAIN orig.val THEN orig.val[p] ELSE FALSE
        IN  /\ out.ok
            /\ out.close = close
            /\ Repaired(probe.env["entries"], out.entries)
            /\ Repaired(probe.env["exits"], out.exits)

\* C5 witness: close has columns A and B, entries only column A (true):
\* the repaired entries keep the true cell of A and get a false cell for B
C5_Witness ==
    /\ probe.kind = "repair" /\ probe.step = 1
    /\ probe.env["close"].index = <<1>>
    /\ probe.env["close"].columns = <<"A", "B">>
    /\ probe.env["entries"] = ConstFrame(TRUE, <<1>>, <<"A">>)
    /\ probe.out.ok
    /\ Shape(probe.out.entries) = <<1, 2>>
    /\ probe.out.entries.val[<<1, "A">>] = TRUE
    /\ probe.out.entries.val[<<1, "B">>] = FALSE

\* the price tables C6 is about: at least 11 rows, at least 1 column
NonDegenerate(r) ==
    /\ r.kind = "multiframe"
    /\ "Close" \in r.fields
    /\ Len(r.index) >= 11
    /\ Len(r.tickers) >= 1

SameAxes(a, b) == a.index = b.index /\ a.columns = b.columns

\* C6 as stated: on a price table of at least 11 rows and 1 column the
\* fallback yields close, entries and exits of the same shape, index and
\* columns, with exactly one true cell in entries and none in exits.
C6_Original ==
    probe.kind = "fallback" /\ probe.step = 1 /\ NonDegenerate(probe.env["raw"]) =>
        /\ probe.out.ok
        /\ SameAxes(probe.out.env["entries"], probe.out.env["close"])
        /\ SameAxes(probe.out.env["exits"], probe.out.env["close"])
        /\ Cardinality(TrueCells(probe.out.env["entries"])) = 1
        /\ TrueCells(probe.out.env["exits"]) = {}

\* C6 as amended: on such a table the fallback yields close, entries and
\* exits of the same shape, index and columns; entries is true in every
\* column of the row at position 10 and nowhere else (one true cell per
\* column), and exits has no true cell.
C6_FallbackBuysEveryColumnOnce ==
    probe.kind = "fallback" /\ probe.step = 1 /\ NonDegenerate(probe.env["raw"]) =>
        LET close == probe.out.env["close"]
            entries == probe.out.env["entries"]
            exits == probe.out.env["exits"]
        IN  /\ probe.out.ok
            /\ IsFrame(close) /\ IsFrame(entries) /\ IsFrame(exits)
            /\ close.index = probe.env["raw"].index
            /\ close.columns = probe.env["raw"].tickers
            /\ SameAxes(entries, close) /\ Shape(entries) = Shape(close)
            /\ SameAxes(exits, close) /\ Shape(exits) = Shape(close)
            /\ TrueCells(entries) = {<<close.index[11], c>> : c \in Range(close.columns)}
            /\ Cardinality(TrueCells(entries)) = Len(close.columns)
            /\ TrueCells(exits) = {}

\* C6 witness: a table of 12 rows and 2 columns, entries true in both
\* columns of the eleventh row
C6_Witness ==
    /\ probe.kind = "fallback" /\ probe.step = 1
    /\ NonDegenerate(probe.env["raw"])
    /\ Len(probe.env["raw"].index) = 12
    /\ probe.env["raw"].tickers = <<"A", "B">>
    /\ probe.out.ok
    /\ TrueCells(probe.out.env["entries"]) = {<<11, "A">>, <<11, "B">>}

\* the category a classified message carries, read from its prefix
Categories(text) ==
    {c \in {"ShapeMismatch", "IndexingError", "DataUnavailable", "SyntaxError", "Other"} :
        StartsWith(text, CASE c = "ShapeMismatch" -> ShapePrefix
                           [] c = "IndexingError" -> IndexingPrefix
                           [] c = "DataUnavailable" -> TickerPrefix
                           [] c = "SyntaxError" -> SyntaxPrefix
                           [] OTHER -> OtherPrefix)}

\* C7: the classifier gives every message exactly one category, decided by
\* the first rule that matches: "shape" and "doesn't match" give
\* ShapeMismatch; else "KeyError" and "None of" give IndexingError, with a
\* hint that names .multiply(); else "No data found" or
\* "YFPricesMissingError" give DataUnavailable; else "SyntaxError" gives
\* SyntaxError; else Other, the message passed through after "Error: ".
C7_FirstMatchingRuleWins ==
    probe.kind = "classify" /\ probe.step = 1 =>
        LET m == probe.input
            out == probe.out
            r1 == Contains(m, ShapeWord) /\ Contains(m, DoesntMatchWord)
            r2 == Contains(m, KeyErrorWord) /\ Contains(m, NoneOfWord)
            r3 == Contains(m, NoDataWord) \/ Contains(m, PricesMissingWord)
            r4 == Contains(m, SyntaxErrorWord)
        IN  /\ Cardinality(Categories(out)) = 1
            /\ Contains(out, m)
            /\ r1 => Categories(out) = {"ShapeMismatch"}
            /\ ~r1 /\ r2 =>
                  /\ Categories(out) = {"IndexingError"}
                  /\ Contains(out, <<".","m","u","l","t","i","p","l","y","(",")">>)
            /\ ~r1 /\ ~r2 /\ r3 => Categories(out) = {"DataUnavailable"}
            /\ ~r1 /\ ~r2 /\ ~r3 /\ r4 => Categories(out) = {"SyntaxError"}
            /\ ~r1 /\ ~r2 /\ ~r3 /\ ~r4 =>
                  Categories(out) = {"Other"} /\ out = OtherPrefix \o m

\* C7 witness: a message that matches the first rule and two later ones
C7_Witness ==
    /\ probe.kind = "classify" /\ probe.step = 1
    /\ Contains(probe.input, ShapeWord)
    /\ Contains(probe.input, DoesntMatchWord)
    /\ Contains(probe.input, SyntaxErrorWord)
    /\ StartsWith(probe.out, ShapePrefix)

\* C8: for a fenced output followed by prose that starts with an
\* explanation marker, the sanitizer returns exactly the code lines.
C8_FencedOutputGivesCodeLines ==
    probe.kind = "clean" /\ probe.step >= 1 /\ probe.form # <<>> =>
        probe.once = Join(probe.form[2])

\* a text with no fence marker and no line that holds an explanation marker
AlreadyClean(text) ==
    /\ ~Contains(text, Fence)
    /\ \A i \in DOMAIN Split(text) : ~HasMarker(Split(text)[i])

\* C9: on a text with no fence marker and no explanation marker the
\* sanitizer only trims leading and trailing whitespace, and sanitizing the
\* result again changes nothing.
C9_CleanTextOnlyTrimmed ==
    probe.kind = "clean" /\ AlreadyClean(probe.input) =>
        /\ probe.step >= 1 => probe.once = Strip(probe.input)
        /\ probe.step = 2 => probe.twice = probe.once

\* C9 witness: a clean text of several lines with whitespace at both ends
C9_Witness ==
    /\ probe.kind = "clean" /\ probe.step = 2
    /\ AlreadyClean(probe.input)
    /\ Len(probe.once) > 0
    /\ Contains(probe.once, <<NL>>)
    /\ probe.input[1] \in Whitespace
    /\ probe.input[Len(probe.input)] \in Whitespace
    /\ probe.twice = probe.once

\* C10: the environment an attempt's code executes in holds no binding made
\* by an earlier attempt: at every exec it is the environment of line 184,
\* raw alone, bound to the fetched table.
C10_EnvFreshAtEachAttempt ==
    pc = "exec" => env = FreshEnv(raw)


(***************************************************************************)
(* The names generated code can resolve (app.py lines 184-192, 228)        *)
(***************************************************************************)
\* lines 185-192: the keys of the dict passed to exec as globals
preloaded_globals == {"__builtins__", "pd", "yf", "vbt", "np"}

\* line 186: some of the names of the builtins module bound to __builtins__
BuiltinNames == {"open", "__import__", "range", "len"}

\* line 228: exec(code_str, preloaded_globals, e) resolves a name in e, then
\* in preloaded_globals, then in the module preloaded_globals["__builtins__"]
Resolvable(e) ==
    {n \in DOMAIN e : e[n] # Absent}
        \cup preloaded_globals
        \cup (IF "__builtins__" \in preloaded_globals THEN BuiltinNames ELSE {})

\* the allow-list: the price table and the four library bindings
AllowList == {"raw", "pd", "np", "yf", "vbt"}

\* C11: at the start of every attempt's execution the names the generated
\* code can resolve are exactly raw, pd, np, yf and vbt: no builtin such as
\* open or __import__, and no binding left by an earlier attempt.
C11_OnlyAllowListResolvable ==
    pc = "exec" => Resolvable(env) = AllowList

\* the faults the checks of lines 231-245 raise
ValidationMsgs == {MissingMsg, CloseTypeMsg, EntriesTypeMsg, ExitsTypeMsg}

\* the first check of lines 231-245 that the environment e fails, if any
FirstFailedCheck(e) ==
    IF \E n \in {"close", "entries", "exits"} : e[n] = Absent THEN MissingMsg
    ELSE IF e["close"].kind # "frame" THEN CloseTypeMsg
    ELSE IF e["entries"].kind # "frame" THEN EntriesTypeMsg
    ELSE IF e["exits"].kind # "frame" THEN ExitsTypeMsg
    ELSE None

\* C12: after the generated code ran without fault the checks run in a
\* fixed order and stop at the first failure: the required-name check, then
\* the type of close, of entries, of exits.  A failed check raises its own
\* fault, the simulation is not invoked for that attempt, and the fault is
\* classified and then retried or handed to the fallback like any other.
C12_ValidationFailsFast ==
    [][ /\ pc = "validate" /\ FirstFailedCheck(env) # None =>
              /\ pc' = "except"
              /\ error_str' = FirstFailedCheck(env)
              /\ fault_at' = attempt
              /\ sim' = sim /\ result' = result
        /\ pc = "validate" /\ FirstFailedCheck(env) = None => pc' = "simulate"
        /\ pc = "except" /\ error_str \in ValidationMsgs =>
              /\ last_error' = Classify(error_str)
              /\ sim' = sim /\ result' = result
              /\ pc' = IF attempt = max_retries THEN "fallback_exec" ELSE "loop"
      ]_vars

\* the type check of entries has failed on an attempt that is retried, with
\* close a table and exits not a table either
C12_Witness ==
    /\ pc = "loop" /\ attempt < max_retries /\ fault_at = attempt
    /\ error_str = EntriesTypeMsg
    /\ last_error = Classify(EntriesTypeMsg)
    /\ env["close"].kind = "frame"
    /\ env["entries"].kind # "frame"
    /\ env["exits"] = NotFrame

(***************************************************************************)
(* The /backtest route (app.py lines 355-550) around a call of             *)
(* auto_backtest                                                           *)
(***************************************************************************)
\* line 377: max_retries=3
RouteRetries == 3

\* line 383 on None: portfolio.stats()
NoStatsMsg == <<"'","N","o","n","e","T","y","p","e","'"," ","o","b","j","e","c","t"," ","h","a","s"," ","n","o"," ","a","t","t","r","i","b","u","t","e"," ","'","s","t","a","t","s","'">>

\* lines 546-550
ErrorResponse(message) == [status |-> "error", message |-> message, code |-> 500]

\* lines 517-540
SuccessResponse(pf) == [status |-> "success", portfolio |-> pf, code |-> 200]

\* a fault raised outside the try of line 362: the server's own error page
Unhandled == [status |-> "unhandled"]

\* a plausible slip: except RuntimeError
RouteCatches_RuntimeOnly(type) == type = "RuntimeError"

\* line 542: except Exception catches every fault auto_backtest raises
RouteCatches(type) == type \in {"ValueError", "RuntimeError", "fetch", "generation"}

InitRoute ==
    /\ pc = "route"
    /\ api_key \in BOOLEAN
    /\ max_retries = RouteRetries
    /\ raw = Absent
    /\ env = NoEnv
    /\ attempt = 0
    /\ code_str = None
    /\ last_error = <<>>
    /\ error_str = None
    /\ fallback_error = None
    /\ sim = None
    /\ result = Running
    /\ genCalls = 0
    /\ faults = 0
    /\ fault_at = 0
    /\ code_at = 0
    /\ fb = "no"
    /\ probe = NoProbe
    /\ response = NoResponse
    /\ process = NoProcess
    /\ calls = NoCalls

\* lines 357-381: the request is read (outside the try), the symbol file is
\* read (inside it) and auto_backtest is called
RouteEnter ==
    /\ pc = "route"
    /\ \/ pc' = "responded" /\ response' = Unhandled
       \/ pc' = "responded" /\ response' = ErrorResponse(None)
       \/ pc' = "configure" /\ response' = response
    /\ UNCHANGED <<api_key, max_retries, raw, env, attempt, code_str,
                   last_error, error_str, fallback_error, sim, result,
                   genCalls, faults, fault_at, code_at, fb, probe,
                   process, calls>>

\* lines 383-550: the statistics, plots and benchmark download after the
\* call, any of which may raise, and the handler of line 542
RouteRespond ==
    /\ pc = "done"
    /\ pc' = "responded"
    /\ IF result.kind = "raise"
       THEN response' = IF RouteCatches(result.type)
                        THEN ErrorResponse(result.msg) ELSE Unhandled
       ELSE IF result.kind = "None"
       THEN response' = ErrorResponse(NoStatsMsg)
       ELSE \/ response' = SuccessResponse(result)
            \/ response' = ErrorResponse(None)
    /\ UNCHANGED <<api_key, max_retries, raw, env, attempt, code_str,
                   last_error, error_str, fallback_error, sim, result,
                   genCalls, faults, fault_at, code_at, fb, probe,
                   process, calls>>

NextRoute ==
    \/ RouteEnter
    \/ Next
    \/ RouteRespond

SpecRoute == InitRoute /\ [][NextRoute]_vars

\* C13: every fault that leaves auto_backtest (attempts exhausted, the data
\* fetch, the missing API key, the generation call) is answered by the route
\* with status 'error', the fault's message and HTTP status 500; a success
\* response is given only for a call that returned a portfolio.
C13_FaultsBecomeErrorResponses ==
    /\ pc = "responded" /\ result.kind = "raise" =>
          /\ response.status = "error"
          /\ response.message = result.msg
          /\ response.code = 500
    /\ response.status = "success" => result.kind = "portfolio"

\* the route has answered a call that ended with attempts exhausted
C13_Witness ==
    /\ pc = "responded"
    /\ result = Raise("RuntimeError", GiveUpMsg)
    /\ faults = RouteRetries /\ fb = "faulted"
    /\ response = ErrorResponse(GiveUpMsg)

\* C14: the prompt of attempt 1 is the base prompt alone; the prompt of an
\* attempt k > 1 is the base prompt, then the sanitized code of attempt
\* k - 1 as it is, the number k - 1, the classified error of attempt k - 1
\* and the instruction to output only corrected code.  Code and error are
\* those of attempt k - 1, never of an earlier attempt.
C14_PromptCarriesLastAttemptOnly ==
    pc = "generate" =>
        IF attempt = 1 THEN BuildPrompt = base_prompt
        ELSE /\ code_at = attempt - 1
             /\ fault_at = attempt - 1
             /\ code_str # None
             /\ BuildPrompt =
                   Concat(<<base_prompt,
                            <<"\n","#"," ","P","r","e","v","i","o","u","s"," ","c","o","d","e",":","\n">>,
                            code_str,
                            <<"\n","#"," ","E","r","r","o","r"," ","o","n"," ","a","t","t","e","m","p","t"," ">>,
                            Str(attempt - 1),
                            <<":","\n">>,
                            Classify(error_str),
                            <<"\n","#"," ","P","l","e","a","s","e"," ","c","o","r","r","e","c","t"," ","a","n","d"," ","o","u","t","p","u","t"," ","o","n","l","y"," ","c","o","r","r","e","c","t","e","d"," ","c","o","d","e",".">>>>)

\* the prompt of attempt 3 is being built after two failed attempts, the
\* second one failed in the simulation
C14_Witness ==
    /\ pc = "generate" /\ attempt = 3 /\ genCalls = 2 /\ faults = 2
    /\ code_at = 2 /\ fault_at = 2
    /\ error_str \in SimMsgs
    /\ Contains(BuildPrompt, IndexingPrefix)
    /\ Contains(BuildPrompt, <<"#"," ","E","r","r","o","r"," ","o","n"," ","a","t","t","e","m","p","t"," ","2",":">>)

\* the positions of the lines that hold a marker in any letter case
MarkerPositions(lines) ==
    {i \in 1..Len(lines) :
        \E m \in { <<"t","h","i","s"," ","c","o","d","e">>, <<"t","h","e"," ","a","b","o","v","e">>, <<"e","x","p","l","a","n","a","t","i","o","n",":">>, <<"n","o","t","e",":">> } :
            Contains(Lower(lines[i]), m)}

\* the lines before the first marker line, all of them when there is none
BeforeFirstMarker(lines) ==
    IF MarkerPositions(lines) = {} THEN lines
    ELSE LET k == CHOOSE i \in MarkerPositions(lines) :
                      \A j \in MarkerPositions(lines) : i <= j
         IN  SubSeq(lines, 1, k - 1)

\* C15: for every input the output of clean_generated_code is, once the
\* fences are removed and up to the trimming of leading and trailing
\* whitespace, the input lines before the first line that holds one of the
\* markers in any letter case, unaltered and in order; that line and every
\* later line are dropped, also when the marker stands in a code comment.
C15_TruncatesAtFirstMarkerLine ==
    probe.kind = "clean" /\ probe.step >= 1 =>
        probe.once = Strip(Join(BeforeFirstMarker(Split(StripFences(probe.input)))))

\* a code line, then a comment line that holds a marker, then a code line
\* that is dropped with it
C15_Witness ==
    /\ probe.kind = "clean" /\ probe.step >= 1
    /\ probe.input = <<"a"," ","="," ","1","\n","#"," ","N","O","T","E",":"," ","b","\n","\t","c">>
    /\ probe.once = <<"a"," ","="," ","1">>

\* auto_backtest has returned the portfolio of an attempt's generated code
ReturnedGenerated == result.kind = "portfolio" /\ result.by = "generated"

\* C16: the attempts are numbered 1, 2, ... and run one after another: the
\* next one begins only when the one before has generated, sanitized,
\* executed and ended in a handled fault.  The first attempt whose code
\* executes, validates and simulates without fault ends the loop: its
\* portfolio is returned and no generation call, execution or fallback
\* comes after it.
C16_FirstSuccessEndsLoop ==
    [][ /\ attempt' \in {attempt, attempt + 1}
        /\ attempt' = attempt + 1 =>
              /\ pc = "loop" /\ pc' = "generate"
              /\ genCalls = attempt /\ faults = attempt
              /\ attempt >= 1 => code_at = attempt /\ fault_at = attempt
        /\ pc = "simulate" /\ pc' # "except" =>
              /\ pc' = "done"
              /\ result' = Portfolio("generated", Validate(env))
              /\ faults = attempt - 1 /\ genCalls = attempt /\ fb = "no"
        /\ ReturnedGenerated =>
              /\ pc = "done"
              /\ UNCHANGED <<pc, result, genCalls, env, attempt, code_str, fb, faults>>
      ]_vars

\* the second attempt has succeeded after a first one that failed
C16_Witness ==
    /\ ReturnedGenerated /\ pc = "done"
    /\ attempt = 2 /\ max_retries = 3
    /\ genCalls = 2 /\ faults = 1 /\ fault_at = 1 /\ fb = "no"

\* what the fallback of lines 296-310 hands to the simulation from the
\* environment e, or that it failed
FallbackOutcome(e) ==
    LET f == FallbackCode(e) IN
    IF f.ok /\ f.env["close"] # Absent /\ f.env["entries"] # Absent
            /\ f.env["exits"] # Absent
    THEN Triple(f.env["close"], f.env["entries"], f.env["exits"])
    ELSE [ok |-> FALSE]

\* C17: the outcome of the fallback strategy depends on the fetched price
\* table alone: whatever the failed attempts executed, the fallback hands
\* over what it would hand over in the environment of line 184, in which raw
\* is the fetched table and nothing else is bound.
C17_FallbackDependsOnPricesOnly ==
    pc = "fallback_exec" => FallbackOutcome(env) = FallbackOutcome(FreshEnv(raw))

\* C18: the price table is fetched once in a call of auto_backtest, before
\* attempt 1.  A fault of the fetch leaves auto_backtest at once: no
\* generation call has been or will be made, nothing is classified, no
\* attempt and no fallback is started.
C18_FetchOnceAndFaultPropagates ==
    [][ /\ pc' = "load" /\ pc # "load" => pc = "configure"
        /\ raw' # raw =>
              pc = "load" /\ raw = Absent /\ attempt = 0 /\ genCalls = 0
        /\ attempt' = 1 /\ attempt = 0 => raw # Absent /\ raw' = raw
        /\ pc = "load" /\ raw' = raw =>
              /\ pc' = "done"
              /\ result' = Raise("fetch", None)
              /\ UNCHANGED <<attempt, genCalls, faults, last_error, fb, env, code_str>>
        /\ result.kind = "raise" /\ result.type = "fetch" =>
              /\ genCalls = 0 /\ attempt = 0 /\ faults = 0 /\ fb = "no"
              /\ last_error = <<>> /\ code_str = None
              /\ UNCHANGED <<pc, result, attempt, genCalls, faults, last_error, fb>>
      ]_vars

\* the fetch has faulted and auto_backtest has ended with its fault
C18_Witness ==
    /\ pc = "done" /\ result = Raise("fetch", None)
    /\ api_key /\ max_retries = 3
    /\ raw = Absent /\ genCalls = 0 /\ attempt = 0 /\ faults = 0 /\ fb = "no"

(***************************************************************************)
(* The tickers auto_backtest fetches (app.py lines 50-58, 169-180)         *)
(***************************************************************************)
UpperChar(c) ==
    IF \E i \in DOMAIN LowerChars : LowerChars[i] = c
    THEN UpperChars[CHOOSE i \in DOMAIN LowerChars : LowerChars[i] = c]
    ELSE c

\* s.upper()
Upper(s) == [i \in 1..Len(s) |-> UpperChar(s[i])]

\* Series.unique(): the first occurrence of every value, in order
RECURSIVE Unique(_)
Unique(s) ==
    IF Len(s) = 0 THEN <<>>
    ELSE LET init == Unique(SubSeq(s, 1, Len(s) - 1))
         IN  IF s[Len(s)] \in Range(init) THEN init ELSE Append(init, s[Len(s)])

NSSuffix == <<".","N","S">>

\* line 171: df['Symbol'].dropna().astype(str).str.upper().unique()
RawSyms(symbols) == Unique([i \in 1..Len(symbols) |-> Upper(symbols[i])])

\* line 172: the list assigned to tickers, whatever the argument was
CsvTickers(symbols) ==
    [i \in 1..Len(RawSyms(symbols)) |->
        IF EndsWith(RawSyms(symbols)[i], NSSuffix) THEN RawSyms(symbols)[i]
        ELSE RawSyms(symbols)[i] \o NSSuffix]

\* the longest ticker argument and Symbol column of the inputs
MaxSyms == 2

\* values of the tickers argument
ArgTickers == { <<"A",".","N","S">>, <<"B",".","N","S">>, <<"C",".","N","S">> }

\* values of the Symbol column of ind_nifty500list.csv
CsvSymbols == { <<"A">>, <<"b">>, <<"B",".","N","S">> }

InitTickers ==
    /\ Idle
    /\ NoPair
    /\ probe \in {[kind |-> "tickers", arg |-> a, symbols |-> s, tickers |-> a,
                   columns |-> None, step |-> 0] :
                     a \in SeqsUpTo(ArgTickers, MaxSyms),
                     s \in SeqsUpTo(CsvSymbols, MaxSyms)}

\* lines 169-180: tickers is assigned from the file and passed to
\* yf.download, whose table has one column group per ticker asked for
TickersStep ==
    /\ probe.kind = "tickers" /\ probe.step = 0
    /\ probe' = [probe EXCEPT !.tickers = CsvTickers(probe.symbols),
                              !.columns = CsvTickers(probe.symbols),
                              !.step = 1]
    /\ UNCHANGED mainVars

NextTickers == TickersStep

SpecTickers == InitTickers /\ [][NextTickers]_vars

\* C20: the symbols auto_backtest fetches prices for, and so the columns of
\* the price table, are among the tickers the caller passed in the tickers
\* argument.
C20_FetchedTickersAreRequested ==
    probe.kind = "tickers" /\ probe.step = 1 =>
        Range(probe.columns) \subseteq Range(probe.arg)

(***************************************************************************)
(* Two requests in auto_backtest at once (app.py line 553: threaded=True). *)
(* Each thread has its own frame of locals (calls[i]); the dicts the       *)
(* locals refer to live on the heap of the process, next to the module     *)
(* attribute openai.api_key that line 60 assigns.                          *)
(***************************************************************************)
Requests == {1, 2}

\* the largest max_retries of a concurrent call
MaxPairRetries == 2

PairRaw == MultiFrame(DatesTo(FallbackOffset + 1), <<"A", "B">>, PriceFields)

PairTexts == { <<"c","l","o","s","e"," ","="," ","r","a","w">> }

\* what the code generated for a concurrent call does to the names of env
PairPrograms ==
    { [raw |-> Keep, close |-> Keep, entries |-> Keep, exits |-> Keep],
      [raw |-> NotFrame, close |-> Keep, entries |-> Keep, exits |-> Keep],
      [raw |-> Keep,
       close |-> ConstFrame("price", <<1>>, <<"A">>),
       entries |-> ConstFrame(TRUE, <<1>>, <<"A">>),
       exits |-> ConstFrame(FALSE, <<1>>, <<"A">>)] }

\* a plausible slip: env as one module-level dict
EnvCell_Module(i) == 1

\* line 184: env = {"raw": raw} makes a new dict in every call
EnvCell(i) == i

\* lines 50-58: the frame of a call that has just been entered
NewCall(m) ==
    [pc |-> "configure", max_retries |-> m, env |-> 0, attempt |-> 0,
     code_str |-> None, last_error |-> <<>>, error_str |-> None,
     sim |-> None, result |-> Running]

InitPair ==
    /\ Idle
    /\ probe = NoProbe
    /\ process \in {[kind |-> "process", environ |-> k, openai_api_key |-> FALSE,
                     heap |-> [c \in Requests |-> NoEnv]] : k \in BOOLEAN}
    /\ calls \in [Requests -> {NewCall(m) : m \in 1..MaxPairRetries}]

\* the dict the local env of call i refers to
EnvOf(i) == process.heap[calls[i].env]

\* lines 196-209 in the frame c
CallPrompt(c) ==
    IF c.code_str = None THEN base_prompt
    ELSE base_prompt
         \o <<"\n","#"," ","P","r","e","v","i","o","u","s"," ","c","o","d","e",":","\n">> \o c.code_str
         \o <<"\n","#"," ","E","r","r","o","r"," ","o","n"," ","a","t","t","e","m","p","t"," ">> \o Str(c.attempt - 1)
         \o <<":","\n">> \o c.last_error
         \o <<"\n","#"," ","P","l","e","a","s","e"," ","c","o","r","r","e","c","t"," ","a","n","d"," ","o","u","t","p","u","t"," ","o","n","l","y"," ","c","o","r","r","e","c","t","e","d"," ","c","o","d","e",".">>

\* lines 60-62: the key goes from the environment to the module attribute
CallConfigure(i) ==
    /\ calls[i].pc = "configure"
    /\ process' = [process EXCEPT !.openai_api_key = process.environ]
    /\ calls' = [calls EXCEPT ![i] =
          IF process.environ THEN [@ EXCEPT !.pc = "load"]
          ELSE [@ EXCEPT !.pc = "done", !.result = Raise("ValueError", KeyMsg)]]
    /\ UNCHANGED <<soloVars, probe>>

\* lines 170-192
CallLoadData(i) ==
    /\ calls[i].pc = "load"
    /\ \/ /\ calls' = [calls EXCEPT ![i] =
                [@ EXCEPT !.pc = "done", !.result = Raise("fetch", None)]]
          /\ process' = process
       \/ /\ calls' = [calls EXCEPT ![i] = [@ EXCEPT !.pc = "loop", !.env = EnvCell(i)]]
          /\ process' = [process EXCEPT !.heap[EnvCell(i)] = FreshEnv(PairRaw)]
    /\ UNCHANGED <<soloVars, probe>>

\* line 194 and line 340
CallNextAttempt(i) ==
    /\ calls[i].pc = "loop"
    /\ calls' = [calls EXCEPT ![i] =
          IF @.attempt < @.max_retries
          THEN [@ EXCEPT !.attempt = @ + 1, !.pc = "generate"]
          ELSE [@ EXCEPT !.pc = "done", !.result = ReturnNone]]
    /\ UNCHANGED <<soloVars, probe, process>>

\* lines 196-219: the remote call is made with the key openai.api_key holds
CallGenerate(i) ==
    /\ calls[i].pc = "generate"
    /\ \/ calls' = [calls EXCEPT ![i] =
             [@ EXCEPT !.pc = "done", !.result = Raise("generation", None)]]
       \/ /\ process.openai_api_key
          /\ \E text \in PairTexts :
                calls' = [calls EXCEPT ![i] =
                   [@ EXCEPT !.pc = "exec", !.code_str = clean_generated_code(text)]]
    /\ UNCHANGED <<soloVars, probe, process>>

\* line 228
CallExec(i) ==
    /\ calls[i].pc = "exec"
    /\ \E prog \in PairPrograms :
          /\ process' = [process EXCEPT !.heap[calls[i].env] = Apply(prog, @)]
          /\ \/ calls' = [calls EXCEPT ![i] = [@ EXCEPT !.pc = "validate"]]
             \/ \E msg \in ExecMsgs :
                   calls' = [calls EXCEPT ![i] =
                      [@ EXCEPT !.pc = "except", !.error_str = msg]]
    /\ UNCHANGED <<soloVars, probe>>

\* lines 230-254
CallValidate(i) ==
    /\ calls[i].pc = "validate"
    /\ LET v == Validate(EnvOf(i)) IN
       calls' = [calls EXCEPT ![i] =
          IF v.ok THEN [@ EXCEPT !.pc = "simulate", !.sim = v]
          ELSE [@ EXCEPT !.pc = "except", !.error_str = v.error]]
    /\ UNCHANGED <<soloVars, probe, process>>

\* lines 257-273
CallSimulate(i) ==
    /\ calls[i].pc = "simulate"
    /\ \/ calls' = [calls EXCEPT ![i] =
             [@ EXCEPT !.pc = "done",
                       !.result = Portfolio("generated", calls[i].sim)]]
       \/ \E msg \in SimMsgs :
             calls' = [calls EXCEPT ![i] =
                [@ EXCEPT !.pc = "except", !.error_str = msg]]
    /\ UNCHANGED <<soloVars, probe, process>>

\* lines 275-293
CallHandleError(i) ==
    /\ calls[i].pc = "except"
    /\ calls' = [calls EXCEPT ![i] =
          [@ EXCEPT !.last_error = Classify(calls[i].error_str),
                    !.pc = IF calls[i].attempt = calls[i].max_retries
                           THEN "fallback_exec" ELSE "loop"]]
    /\ UNCHANGED <<soloVars, probe, process>>

\* lines 294-310: the fallback in the env of the call, and the name check
CallFallbackExec(i) ==
    /\ calls[i].pc = "fallback_exec"
    /\ LET f == FallbackCode(EnvOf(i)) IN
       IF f.ok
       THEN /\ process' = [process EXCEPT !.heap[calls[i].env] = f.env]
            /\ calls' = [calls EXCEPT ![i] =
                  IF f.env["close"] # Absent /\ f.env["entries"] # Absent
                     /\ f.env["exits"] # Absent
                  THEN [@ EXCEPT !.pc = "fallback_sim",
                                 !.sim = Triple(f.env["close"], f.env["entries"],
                                                f.env["exits"])]
                  ELSE [@ EXCEPT !.pc = "give_up"]]
       ELSE /\ process' = process
            /\ calls' = [calls EXCEPT ![i] = [@ EXCEPT !.pc = "give_up"]]
    /\ UNCHANGED <<soloVars, probe>>

\* lines 313-332
CallFallbackSimulate(i) ==
    /\ calls[i].pc = "fallback_sim"
    /\ \/ calls' = [calls EXCEPT ![i] =
             [@ EXCEPT !.pc = "done",
                       !.result = Portfolio("fallback", calls[i].sim)]]
       \/ calls' = [calls EXCEPT ![i] = [@ EXCEPT !.pc = "give_up"]]
    /\ UNCHANGED <<soloVars, probe, process>>

\* lines 335-338
CallGiveUp(i) ==
    /\ calls[i].pc = "give_up"
    /\ calls' = [calls EXCEPT ![i] =
          [@ EXCEPT !.pc = "done",
                    !.result = Raise("RuntimeError",
                       <<"F","a","i","l","e","d"," ","t","o"," ","g","e","n","e","r","a","t","e"," ","v","a","l","i","d"," ","c","o","d","e"," ","a","f","t","e","r"," ">>
                          \o Str(calls[i].max_retries)
                          \o <<" ","a","t","t","e","m","p","t","s",".","\n","L","a","s","t"," ","e","r","r","o","r",":","\n">>
                          \o calls[i].last_error)]]
    /\ UNCHANGED <<soloVars, probe, process>>

\* one statement of one thread
CallStep(i) ==
    \/ CallConfigure(i)
    \/ CallLoadData(i)
    \/ CallNextAttempt(i)
    \/ CallGenerate(i)
    \/ CallExec(i)
    \/ CallValidate(i)
    \/ CallSimulate(i)
    \/ CallHandleError(i)
    \/ CallFallbackExec(i)
    \/ CallFallbackSimulate(i)
    \/ CallGiveUp(i)

NextPair == \E i \in Requests : CallStep(i)

SpecPair == InitPair /\ [][NextPair]_vars

\* what call i works with: its retry state, the bindings of its env, the
\* prompt it would send and its outcome
View(i) ==
    [pc |-> calls[i].pc,
     attempt |-> calls[i].attempt,
     code_str |-> calls[i].code_str,
     last_error |-> calls[i].last_error,
     env |-> IF calls[i].env = 0 THEN NoEnv ELSE EnvOf(i),
     prompt |-> CallPrompt(calls[i]),
     result |-> calls[i].result]

\* C19: with two requests in auto_backtest at once, in any interleaving, the
\* attempt counter, the carried code, the classified error and the
\* environment of a request are its own: a step of one request leaves the
\* retry state, the environment, the prompt and the outcome of the other as
\* they were, and the key a request generates with is the one it configured.
C19_RequestsDoNotInterfere ==
    [][ /\ \E i \in Requests : \A j \in Requests \ {i} : View(j)' = View(j)
        /\ \A i \in Requests :
              calls[i].pc = "generate" => process.openai_api_key = process.environ
      ]_vars

\* both requests are in the loop: one retries with the code and error of its
\* first attempt, the other has bound the three tables in its own env
C19_Witness ==
    /\ calls # NoCalls
    /\ calls[1].pc = "generate" /\ calls[1].attempt = 2
    /\ calls[1].code_str # None /\ calls[1].last_error # <<>>
    /\ calls[2].pc = "validate" /\ calls[2].attempt = 1
    /\ EnvOf(1)["close"] = Absent
    /\ EnvOf(2)["close"] # Absent
    /\ EnvOf(1)["raw"] = NotFrame

(***************************************************************************)
(* auto_backtest with every statement, and every external call that        *)
(* returns or raises, followed by the next statement                       *)
(***************************************************************************)
\* the largest max_retries of the calls followed to their end
MaxLiveRetries == 2

InitLive == Init /\ max_retries <= MaxLiveRetries

SpecLive == InitLive /\ [][Next]_vars /\ WF_vars(Next)

\* C21: for every max_retries >= 1, when each external call returns or
\* raises, auto_backtest ends after at most max_retries attempts, and ends
\* in one of three ways: with the portfolio of a generated attempt, with the
\* fallback portfolio, or with a raised fault; never with the return None
\* of line 340.
C21_TerminatesWithPortfolioOrFault ==
    /\ <>(pc = "done")
    /\ [](max_retries >= 1 =>
              /\ attempt <= max_retries
              /\ genCalls <= max_retries
              /\ result # ReturnNone
              /\ pc = "done" =>
                    \/ result.kind = "portfolio" /\ result.by \in {"generated", "fallback"}
                    \/ result.kind = "raise")

\* a call with max_retries = 2 has ended with the fallback portfolio
C21_Witness ==
    /\ pc = "done" /\ max_retries = 2 /\ attempt = 2
    /\ genCalls = 2 /\ faults = 2 /\ fb = "returned"
    /\ result.kind = "portfolio" /\ result.by = "fallback"

\* auto_backtest has ended with the fault of a remote generation call
GenerationRaised == result.kind = "raise" /\ result.type = "generation"

\* C22: a fault of the remote generation call at an attempt k is not
\* classified and uses up no retry: it leaves auto_backtest at once, no
\* further attempt is made and the fallback is not run, also when
\* k < max_retries.
C22_GenerationFaultPropagates ==
    [][ /\ pc = "generate" /\ pc' # "exec" =>
              /\ pc' = "done"
              /\ result' = Raise("generation", None)
              /\ UNCHANGED <<attempt, faults, last_error, error_str, fault_at,
                             code_str, env, fb, sim>>
        /\ GenerationRaised =>
              /\ pc = "done"
              /\ genCalls = attempt /\ faults = attempt - 1 /\ fault_at = attempt - 1
              /\ fb = "no"
              /\ UNCHANGED <<pc, result, attempt, genCalls, faults, last_error, fb, env>>
      ]_vars

\* the generation call of attempt 2 of 3 has raised after a first attempt
\* that failed: the call has ended, no third attempt, no fallback
C22_Witness ==
    /\ GenerationRaised /\ pc = "done"
    /\ attempt = 2 /\ max_retries = 3
    /\ genCalls = 2 /\ faults = 1 /\ fault_at = 1 /\ code_at = 1
    /\ last_error = Classify(error_str)
    /\ fb = "no"
=============================================================================
